---------------------------- MODULE Spec2Model ----------------------------
(***************************************************************************)
(* Model of the NYTimes Connections API (src/main.py): the FastAPI         *)
(* handlers get_connections_game and health_check, the context manager     *)
(* get_db_connection and parse_date_string, together with the PostgreSQL   *)
(* store they talk to through psycopg2.                                    *)
(*                                                                         *)
(* Strings that the code parses or formats (the {date} path parameter,     *)
(* print_date) are sequences of one-character strings, so that strptime    *)
(* and strftime are computed character by character.  Inputs are ASCII.    *)
(***************************************************************************)
EXTENDS Integers, Sequences, FiniteSets, TLC

\* Number of request slots the server handles concurrently.
NumReqs == 2

Reqs == 1..NumReqs

\* Python's None, for the local variable conn (main.py line 52).
NoConn == 0
\* Python's None / SQL NULL for a text value.
None == "None"

(***************************************************************************)
(* datetime.strptime(date_str, "%Y-%m-%d")                                 *)
(***************************************************************************)
DigitChars == <<"0", "1", "2", "3", "4", "5", "6", "7", "8", "9">>

IsDigit(c) == \E i \in 1..10 : DigitChars[i] = c

DigitVal(c) == (CHOOSE i \in 1..10 : DigitChars[i] = c) - 1

DigitChar(n) == DigitChars[n + 1]

\* The character at position i, or "" past the end of the string.
At(s, i) == IF i >= 1 /\ i <= Len(s) THEN s[i] ELSE ""

InRange(c, lo, hi) == IsDigit(c) /\ DigitVal(c) >= lo /\ DigitVal(c) <= hi

NoMatch == [ok |-> FALSE, val |-> 0, end |-> 0]

\* %Y is \d\d\d\d: exactly four digits, starting at position p.
MatchYear(s, p) ==
    IF IsDigit(At(s, p)) /\ IsDigit(At(s, p + 1))
         /\ IsDigit(At(s, p + 2)) /\ IsDigit(At(s, p + 3))
    THEN [ok |-> TRUE,
          val |-> DigitVal(s[p]) * 1000 + DigitVal(s[p + 1]) * 100
                    + DigitVal(s[p + 2]) * 10 + DigitVal(s[p + 3]),
          end |-> p + 4]
    ELSE NoMatch

\* %m is 1[0-2]|0[1-9]|[1-9], and the "-" of the format must follow it: the
\* regex engine backtracks over the alternatives, in this order, until it does.
MatchMonth(s, p) ==
    LET a == At(s, p)
        b == At(s, p + 1)
    IN  IF a = "1" /\ InRange(b, 0, 2) /\ At(s, p + 2) = "-"
        THEN [ok |-> TRUE, val |-> 10 + DigitVal(b), end |-> p + 2]
        ELSE IF a = "0" /\ InRange(b, 1, 9) /\ At(s, p + 2) = "-"
        THEN [ok |-> TRUE, val |-> DigitVal(b), end |-> p + 2]
        ELSE IF InRange(a, 1, 9) /\ b = "-"
        THEN [ok |-> TRUE, val |-> DigitVal(a), end |-> p + 1]
        ELSE NoMatch

\* %d is 3[0-1]|[1-2]\d|0[1-9]|[1-9]| [1-9]; it ends the format, so the first
\* alternative that matches is taken, whatever follows it.
MatchDay(s, p) ==
    LET a == At(s, p)
        b == At(s, p + 1)
    IN  IF a = "3" /\ InRange(b, 0, 1)
        THEN [ok |-> TRUE, val |-> 30 + DigitVal(b), end |-> p + 2]
        ELSE IF InRange(a, 1, 2) /\ IsDigit(b)
        THEN [ok |-> TRUE, val |-> DigitVal(a) * 10 + DigitVal(b), end |-> p + 2]
        ELSE IF a = "0" /\ InRange(b, 1, 9)
        THEN [ok |-> TRUE, val |-> DigitVal(b), end |-> p + 2]
        ELSE IF InRange(a, 1, 9)
        THEN [ok |-> TRUE, val |-> DigitVal(a), end |-> p + 1]
        ELSE IF a = " " /\ InRange(b, 1, 9)
        THEN [ok |-> TRUE, val |-> DigitVal(b), end |-> p + 2]
        ELSE NoMatch

IsLeap(y) == (y % 4 = 0) /\ ((y % 100 # 0) \/ (y % 400 = 0))

DaysInMonth(y, m) ==
    IF m = 2 THEN (IF IsLeap(y) THEN 29 ELSE 28)
    ELSE IF m \in {4, 6, 9, 11} THEN 30 ELSE 31

\* datetime.date(y, m, d) raises ValueError outside MINYEAR..MAXYEAR or for a
\* day the month does not have.
IsCalendarDate(y, m, d) ==
    /\ y >= 1 /\ y <= 9999
    /\ m >= 1 /\ m <= 12
    /\ d >= 1 /\ d <= DaysInMonth(y, m)

NoDate == [year |-> 0, month |-> 0, day |-> 0]

\* The result of strptime: ok = FALSE stands for ValueError (no match of the
\* format, unconverted data remaining after the match, or no such date).
strptime(s) ==
    LET Y == MatchYear(s, 1)
        m == IF Y.ok /\ At(s, Y.end) = "-" THEN MatchMonth(s, Y.end + 1) ELSE NoMatch
        d == IF m.ok THEN MatchDay(s, m.end + 1) ELSE NoMatch
    IN  IF d.ok /\ d.end = Len(s) + 1 /\ IsCalendarDate(Y.val, m.val, d.val)
        THEN [ok |-> TRUE, date |-> [year |-> Y.val, month |-> m.val, day |-> d.val]]
        ELSE [ok |-> FALSE, date |-> NoDate]

(***************************************************************************)
(* date.strftime("%Y-%m-%d")                                               *)
(***************************************************************************)
Pad2(n) == <<DigitChar(n \div 10), DigitChar(n % 10)>>

Pad4(n) == <<DigitChar(n \div 1000), DigitChar((n \div 100) % 10),
             DigitChar((n \div 10) % 10), DigitChar(n % 10)>>

RECURSIVE Decimal(_)
Decimal(n) == IF n < 10 THEN <<DigitChar(n)>>
              ELSE Decimal(n \div 10) \o <<DigitChar(n % 10)>>

\* strftime with a bug: the month and the day are not padded to two digits.
strftime_NoZeroPad(d, padYear) ==
    (IF padYear THEN Pad4(d.year) ELSE Decimal(d.year))
        \o <<"-">> \o Decimal(d.month) \o <<"-">> \o Decimal(d.day)

\* %Y is handed to the C library: glibc prints the year without padding
\* ("999"), other libraries and later interpreters pad it to four digits.
strftime(d, padYear) ==
    (IF padYear THEN Pad4(d.year) ELSE Decimal(d.year))
        \o <<"-">> \o Pad2(d.month) \o <<"-">> \o Pad2(d.day)


(***************************************************************************)
(* The store: table solutions(game_date, game_id, editor, categories) of   *)
(* the PostgreSQL database named by DATABASE_CONFIG.  It is written by an  *)
(* external process only.  categories is an opaque JSON document.          *)
(***************************************************************************)
Date(y, m, d) == [year |-> y, month |-> m, day |-> d]

CatsFruits == "[{title:FRUITS,level:0,words:[APPLE,PEAR,PLUM,KIWI]}]"
CatsMixed == "{A:[1,\"1\",1.0],B:{z:null,a:true}}"

RowJune == [game_date |-> Date(2024, 6, 12), game_id |-> 500,
            editor |-> "Wyna Liu", categories |-> CatsFruits]
\* A second row for the same date (the table declares no unique key here).
RowJuneDup == [game_date |-> Date(2024, 6, 12), game_id |-> 501,
               editor |-> "Other Editor", categories |-> CatsMixed]
\* A row whose editor column is NULL.
RowNullEditor == [game_date |-> Date(2024, 2, 29), game_id |-> 600,
                  editor |-> None, categories |-> CatsMixed]
\* A row dated before the year 1000.
RowEarly == [game_date |-> Date(999, 1, 1), game_id |-> 7,
             editor |-> "Early Editor", categories |-> CatsFruits]

Tables == {<<RowJune, RowNullEditor, RowEarly>>, <<RowJuneDup, RowJune>>}

\* The orderings of the rows of table t that satisfy WHERE game_date = d: the
\* query has no ORDER BY, so the server may return them in any order.
RECURSIVE Orderings(_)
Orderings(S) ==
    IF S = {} THEN {<<>>}
    ELSE UNION {{<<x>> \o rest : rest \in Orderings(S \ {x})} : x \in S}

\* The query with a bug: its WHERE clause is missing.
SelectByDate_NoWhere(t, d) == Orderings({t[i] : i \in 1..Len(t)})

SelectByDate(t, d) ==
    Orderings({t[i] : i \in {j \in 1..Len(t) : t[j].game_date = d}})

(***************************************************************************)
(* What leaves a handler: a return value or an exception.                  *)
(***************************************************************************)
NoOutcome == [kind |-> "none", status |-> 0, body |-> [none |-> TRUE]]

HTTPException(status_code, detail) ==
    [kind |-> "HTTPException", status |-> status_code, body |-> [detail |-> detail]]

Psycopg2Error(msg) ==
    [kind |-> "psycopg2.Error", status |-> 0, body |-> [msg |-> msg]]

ValidationError ==
    [kind |-> "ValidationError", status |-> 0,
     body |-> [msg |-> "editor: Input should be a valid string"]]

Return(value) == [kind |-> "return", status |-> 200, body |-> value]

InvalidDateDetail == <<"Invalid date format. Expected YYYY-MM-DD">>

\* parse_date_string with a bug: ValueError is swallowed and the lookup goes on.
parse_date_string_NoRaise(date_str) == Return(strptime(date_str).date)

\* parse_date_string: the parsed date, or HTTPException(400) for ValueError.
parse_date_string(date_str) ==
    LET p == strptime(date_str)
    IN  IF p.ok THEN Return(p.date) ELSE HTTPException(400, InvalidDateDetail)

\* ConnectionsGame(id=.., print_date=.., editor=.., categories=..): pydantic
\* validates the fields as it builds the model; editor: str refuses None.
ConnectionsGame(id, print_date, editor, categories) ==
    IF editor = None THEN ValidationError
    ELSE Return([id |-> id, print_date |-> print_date, editor |-> editor,
                 categories |-> categories])

\* cursor.fetchone(): the first row of the result, if any.
fetchone(rows) == IF rows = <<>> THEN <<>> ELSE <<Head(rows)>>

\* Lines 98-114: the outcome of the handler's body once the query has run.
BuildResult(rows, date_str, padYear) ==
    LET result == fetchone(rows)
    IN  IF result = <<>>
        THEN HTTPException(404, <<"No game data found for date ">> \o date_str)
        ELSE ConnectionsGame(result[1].game_id,
                             strftime(result[1].game_date, padYear),
                             result[1].editor,
                             result[1].categories)

NoResponse == [status |-> 0, body |-> [none |-> TRUE]]

\* FastAPI/Starlette at the handler's boundary: a return value is sent with
\* status 200, an HTTPException with its status and {"detail": ...}, and any
\* other exception as the plain-text 500 "Internal Server Error".
ToResponse(out) ==
    IF out.kind = "return" THEN [status |-> 200, body |-> out.body]
    ELSE IF out.kind = "HTTPException"
    THEN [status |-> out.status, body |-> out.body]
    ELSE [status |-> 500, body |-> [text |-> "Internal Server Error"]]

(***************************************************************************)
(* State.  get_connections_game is an async function that never awaits:    *)
(* between two calls on the store (connect, execute, rollback, close) its  *)
(* code runs without interruption, so each action below is one call on the *)
(* store followed by the handler's code up to its next call on the store.  *)
(***************************************************************************)
VARIABLES
    pc,          \* pc[r]: the call on the store request r makes next
    path,        \* path[r]: the route of request r
    date,        \* date[r]: the {date} path parameter
    parsed,      \* parsed[r]: parsed_date
    conn,        \* conn[r]: the local conn of get_db_connection
    rows,        \* rows[r]: the result set held by the cursor
    outcome,     \* outcome[r]: the return value or exception in flight
    response,    \* response[r]: the HTTP response sent
    log,         \* log[r]: the calls request r made on the store, in order
    connStatus,  \* connStatus[c]: closed, ready, intrans or lost
    dbState,     \* up, failing (reachable, queries fail) or down
    solutions,   \* the rows of table solutions
    padYear      \* whether this build's strftime pads %Y to four digits

vars == <<pc, path, date, parsed, conn, rows, outcome, response, log,
          connStatus, dbState, solutions, padYear>>

local == <<path, date, parsed, conn, rows, outcome, response, log>>
env == <<dbState, solutions, padYear>>

ConnIds == 1..NumReqs

GamePath == "/v1/connections/{date}"

\* connect with a bug: one module-level connection is shared by all requests.
NewConn_Shared(r) == 1

\* psycopg2.connect returns a new connection object, which no other request
\* refers to: the one made for request r is named r.
NewConn(r) == r

Init ==
    /\ pc = [r \in Reqs |-> "idle"]
    /\ path = [r \in Reqs |-> "none"]
    /\ date = [r \in Reqs |-> <<>>]
    /\ parsed = [r \in Reqs |-> NoDate]
    /\ conn = [r \in Reqs |-> NoConn]
    /\ rows = [r \in Reqs |-> <<>>]
    /\ outcome = [r \in Reqs |-> NoOutcome]
    /\ response = [r \in Reqs |-> NoResponse]
    /\ log = [r \in Reqs |-> <<>>]
    /\ connStatus = [c \in ConnIds |-> "closed"]
    /\ dbState = "up"
    /\ solutions \in Tables
    /\ padYear \in BOOLEAN

\* The handler of request r ends with outcome out (it returns or raises), and
\* the framework sends the response.
Finish(r, out) ==
    /\ outcome' = [outcome EXCEPT ![r] = out]
    /\ response' = [response EXCEPT ![r] = ToResponse(out)]
    /\ pc' = [pc EXCEPT ![r] = "done"]

(***************************************************************************)
(* GET /v1/connections/{date}                                              *)
(***************************************************************************)
\* Lines 74-86: a request for the game of date d arrives, is routed to
\* get_connections_game, and parsed_date = parse_date_string(date) runs.  An
\* HTTPException(400) leaves the handler before get_db_connection is entered.
ReceiveGame(r, d) ==
    /\ pc[r] = "idle"
    /\ path' = [path EXCEPT ![r] = GamePath]
    /\ date' = [date EXCEPT ![r] = d]
    /\ LET p == parse_date_string(d)
       IN  IF p.kind = "return"
           THEN /\ parsed' = [parsed EXCEPT ![r] = p.body]
                /\ pc' = [pc EXCEPT ![r] = "connect"]
                /\ UNCHANGED <<outcome, response>>
           ELSE /\ Finish(r, p)
                /\ UNCHANGED parsed
    /\ UNCHANGED <<conn, rows, log, connStatus, env>>

\* Lines 52-55: conn = psycopg2.connect(**DATABASE_CONFIG); yield conn.  When
\* connect raises, conn is None: the except clause (lines 56-59) raises
\* HTTPException(500) without a rollback and finally (60-62) closes nothing.
Connect(r) ==
    /\ pc[r] = "connect"
    /\ IF dbState = "down"
       THEN /\ log' = [log EXCEPT ![r] = Append(@, "connect_failed")]
            /\ Finish(r, HTTPException(500,
                        <<"Database error: ", "could not connect to server">>))
            /\ UNCHANGED <<conn, connStatus>>
       ELSE /\ conn' = [conn EXCEPT ![r] = NewConn(r)]
            /\ connStatus' = [connStatus EXCEPT ![conn'[r]] = "ready"]
            /\ log' = [log EXCEPT ![r] = Append(@, "connect")]
            /\ pc' = [pc EXCEPT ![r] = "execute"]
            /\ UNCHANGED <<outcome, response>>
    /\ UNCHANGED <<path, date, parsed, rows, env>>

\* Lines 89-114: cursor.execute(SELECT ... WHERE game_date = %s, (parsed_date,)),
\* which opens a transaction, then fetchone and the 404 or the ConnectionsGame.
\* A psycopg2.Error raised by execute is thrown into get_db_connection at its
\* yield and caught by its except clause; HTTPException(404) and pydantic's
\* ValidationError are not psycopg2 errors and pass on to its finally.
Execute(r) ==
    /\ pc[r] = "execute"
    /\ IF connStatus[conn[r]] = "lost"
       THEN /\ outcome' = [outcome EXCEPT ![r] =
                              Psycopg2Error("server closed the connection unexpectedly")]
            /\ log' = [log EXCEPT ![r] = Append(@, "execute_failed")]
            /\ pc' = [pc EXCEPT ![r] = "except"]
            /\ UNCHANGED <<rows, connStatus>>
       ELSE IF dbState = "failing"
       THEN /\ outcome' = [outcome EXCEPT ![r] = Psycopg2Error("query failed")]
            /\ connStatus' = [connStatus EXCEPT ![conn[r]] = "intrans"]
            /\ log' = [log EXCEPT ![r] = Append(@, "execute_failed")]
            /\ pc' = [pc EXCEPT ![r] = "except"]
            /\ UNCHANGED rows
       ELSE /\ \E result \in SelectByDate(solutions, parsed[r]) :
                  /\ rows' = [rows EXCEPT ![r] = result]
                  /\ outcome' = [outcome EXCEPT ![r] =
                                    BuildResult(result, date[r], padYear)]
            /\ connStatus' = [connStatus EXCEPT ![conn[r]] = "intrans"]
            /\ log' = [log EXCEPT ![r] = Append(@, "execute")]
            /\ pc' = [pc EXCEPT ![r] = "finally"]
    /\ UNCHANGED <<path, date, parsed, conn, response, env>>

\* Lines 56-59: except psycopg2.Error: if conn: conn.rollback(); raise
\* HTTPException(500).  rollback on a lost connection raises
\* psycopg2.InterfaceError, which replaces the exception being handled.
Except(r) ==
    /\ pc[r] = "except"
    /\ IF connStatus[conn[r]] = "lost"
       THEN /\ outcome' = [outcome EXCEPT ![r] =
                              Psycopg2Error("connection already closed")]
            /\ log' = [log EXCEPT ![r] = Append(@, "rollback_failed")]
            /\ UNCHANGED connStatus
       ELSE /\ outcome' = [outcome EXCEPT ![r] =
                              HTTPException(500, <<"Database error: ", @.body.msg>>)]
            /\ connStatus' = [connStatus EXCEPT ![conn[r]] = "ready"]
            /\ log' = [log EXCEPT ![r] = Append(@, "rollback")]
    /\ pc' = [pc EXCEPT ![r] = "finally"]
    /\ UNCHANGED <<path, date, parsed, conn, rows, response, env>>

\* get_db_connection with a bug: conn.close() follows the yield instead of
\* standing in a finally clause, so it runs only when the block returns.
Finally_CloseOnReturnOnly(r) ==
    /\ pc[r] = "finally"
    /\ IF outcome[r].kind = "return"
       THEN /\ connStatus' = [connStatus EXCEPT ![conn[r]] = "closed"]
            /\ log' = [log EXCEPT ![r] = Append(@, "close")]
       ELSE UNCHANGED <<connStatus, log>>
    /\ Finish(r, outcome[r])
    /\ UNCHANGED <<path, date, parsed, conn, rows, env>>

\* Lines 60-62: finally: if conn: conn.close().  The return value or the
\* exception in flight then leaves the handler.
Finally(r) ==
    /\ pc[r] = "finally"
    /\ connStatus' = [connStatus EXCEPT ![conn[r]] = "closed"]
    /\ log' = [log EXCEPT ![r] = Append(@, "close")]
    /\ Finish(r, outcome[r])
    /\ UNCHANGED <<path, date, parsed, conn, rows, env>>

(***************************************************************************)
(* GET /health                                                             *)
(***************************************************************************)
\* health_check with a bug: it reports what a probe of the store finds.
health_check_ProbesStore ==
    IF dbState = "up" THEN [status |-> "healthy"] ELSE [status |-> "unhealthy"]

\* Line 119: the body health_check returns.
health_check == [status |-> "healthy"]

\* Lines 116-119: the whole handler; it makes no call on the store.
HealthCheck(r) ==
    /\ pc[r] = "idle"
    /\ path' = [path EXCEPT ![r] = "/health"]
    /\ Finish(r, Return(health_check))
    /\ UNCHANGED <<date, parsed, conn, rows, log, connStatus, env>>

\* The client has its response; the locals of the request are gone.
Deliver(r) ==
    /\ pc[r] = "done"
    /\ pc' = [pc EXCEPT ![r] = "idle"]
    /\ path' = [path EXCEPT ![r] = "none"]
    /\ date' = [date EXCEPT ![r] = <<>>]
    /\ parsed' = [parsed EXCEPT ![r] = NoDate]
    /\ conn' = [conn EXCEPT ![r] = NoConn]
    /\ rows' = [rows EXCEPT ![r] = <<>>]
    /\ outcome' = [outcome EXCEPT ![r] = NoOutcome]
    /\ response' = [response EXCEPT ![r] = NoResponse]
    /\ log' = [log EXCEPT ![r] = <<>>]
    /\ UNCHANGED <<connStatus, env>>

(***************************************************************************)
(* The environment: the database server and the process that writes it.    *)
(***************************************************************************)
\* The server becomes reachable, unreachable, or reachable with failing
\* queries.  Connections that are open when it goes down are lost.
StoreChange ==
    /\ \E s \in {"up", "failing", "down"} \ {dbState} :
          /\ dbState' = s
          /\ connStatus' = [c \in ConnIds |->
                              IF s = "down" /\ connStatus[c] # "closed"
                              THEN "lost" ELSE connStatus[c]]
    /\ UNCHANGED <<pc, local, solutions, padYear>>

\* The external writer replaces the content of table solutions.
StoreWrite ==
    /\ \E t \in Tables \ {solutions} : solutions' = t
    /\ UNCHANGED <<pc, local, connStatus, dbState, padYear>>

(***************************************************************************)
(* Inputs and specifications                                               *)
(***************************************************************************)
\* The {date} values requested while several requests run concurrently: a
\* date with a record, the same date written with a one-digit month, a date
\* whose record has a NULL editor, a date without record, a day its month
\* does not have, and text that is no date.
ConcurrentDates ==
    {<<"2", "0", "2", "4", "-", "0", "6", "-", "1", "2">>,
     <<"2", "0", "2", "4", "-", "0", "2", "-", "2", "9">>,
     <<"2", "0", "2", "4", "-", "0", "2", "-", "3", "0">>}

YearParts ==
    {<<"2", "0", "2", "4">>, <<"2", "0", "2", "3">>, <<"1", "9", "0", "0">>,
     <<"2", "0", "9", "9">>, <<"0", "9", "9", "9">>, <<"0", "0", "0", "0">>,
     <<"9", "9", "9">>, <<"2", "4">>, <<"2", "0", "2", "4", "0">>}

MonthParts ==
    {<<"0", "1">>, <<"0", "2">>, <<"0", "6">>, <<"1", "2">>, <<"1", "3">>,
     <<"0", "0">>, <<"6">>, <<"0", "0", "6">>, <<"J", "u", "n">>}

DayParts ==
    {<<"0", "1">>, <<"1", "2">>, <<"2", "9">>, <<"3", "0">>, <<"3", "1">>,
     <<"3", "2">>, <<"0", "0">>, <<"5">>, <<" ", "5">>, <<"0", "1", "2">>,
     <<"1", "2", " ">>, <<"1", "2", "T">>}

\* Every year-month-day string made of these parts, and some text of another shape.
SequentialDates ==
    {y \o <<"-">> \o m \o <<"-">> \o d : y \in YearParts, m \in MonthParts, d \in DayParts}
    \cup {<<"n", "o", "t", "-", "a", "-", "d", "a", "t", "e">>,
          <<"2", "0", "2", "4", "0", "6", "1", "2">>,
          <<"2", "0", "2", "4", ".", "0", "6", ".", "1", "2">>,
          <<"1", "2", "-", "0", "6", "-", "2", "0", "2", "4">>,
          <<" ", "2", "0", "2", "4", "-", "0", "6", "-", "1", "2">>,
          <<"2", "0", "2", "4", "-", "0", "6">>}

\* The steps of request r.
Handle(r) ==
    \/ Connect(r)
    \/ Execute(r)
    \/ Except(r)
    \/ Finally(r)
    \/ HealthCheck(r)
    \/ Deliver(r)

\* Concurrent requests, while the store fails and recovers and is written.
Next ==
    \/ \E r \in Reqs : \E d \in ConcurrentDates : ReceiveGame(r, d)
    \/ \E r \in Reqs : Handle(r)
    \/ StoreChange
    \/ StoreWrite

Spec == Init /\ [][Next]_vars

\* Concurrent requests while nobody writes the table.
NextStable ==
    \/ \E r \in Reqs : \E d \in ConcurrentDates : ReceiveGame(r, d)
    \/ \E r \in Reqs : Handle(r)
    \/ StoreChange

SpecStable == Init /\ [][NextStable]_vars

\* One request at a time, over the larger set of dates.
NextSequential ==
    \/ \E d \in SequentialDates : ReceiveGame(1, d)
    \/ Handle(1)
    \/ StoreChange
    \/ StoreWrite

SpecSequential == Init /\ [][NextSequential]_vars

\* One request at a time against a store that stays up and is not written.
NextHealthy ==
    \/ \E d \in SequentialDates : ReceiveGame(1, d)
    \/ Connect(1)
    \/ Execute(1)
    \/ Finally(1)
    \/ HealthCheck(1)
    \/ Deliver(1)

SpecHealthy == Init /\ [][NextHealthy]_vars

(***************************************************************************)
(* Properties                                                              *)
(***************************************************************************)
Done(r) == pc[r] = "done"

IsGame(r) == path[r] = GamePath

Has(l, e) == \E i \in 1..Len(l) : l[i] = e

\* Request r is inside the with block of get_db_connection, holding a connection.
InScope(r) == pc[r] \in {"execute", "except", "finally"}

StoreFailed(r) == Has(log[r], "connect_failed") \/ Has(log[r], "execute_failed")

\* s is written as four digits, "-", two digits, "-", two digits and names a
\* day of the calendar.
StrictYMD(s) ==
    /\ Len(s) = 10
    /\ \A i \in {1, 2, 3, 4, 6, 7, 9, 10} : IsDigit(s[i])
    /\ s[5] = "-" /\ s[8] = "-"
    /\ IsCalendarDate(DigitVal(s[1]) * 1000 + DigitVal(s[2]) * 100
                        + DigitVal(s[3]) * 10 + DigitVal(s[4]),
                      DigitVal(s[6]) * 10 + DigitVal(s[7]),
                      DigitVal(s[9]) * 10 + DigitVal(s[10]))

\* The YYYY-MM-DD rendering of date d.
FormatYMD(d) == Pad4(d.year) \o <<"-">> \o Pad2(d.month) \o <<"-">> \o Pad2(d.day)

RECURSIVE DropLeadingZeros(_)
DropLeadingZeros(s) == IF Head(s) = "0" THEN DropLeadingZeros(Tail(s)) ELSE s

\* C1: every connection that is open belongs to a request that is still inside
\* the with block of get_db_connection (so none is open when no request is in
\* flight); a request whose response has been produced holds no open
\* connection; and a request that acquired a connection closed it as its last
\* call on the store, on every exit path.
C1_ConnectionReleased ==
    /\ \A c \in ConnIds :
          connStatus[c] # "closed" => \E r \in Reqs : InScope(r) /\ conn[r] = c
    /\ \A r \in Reqs :
          response[r] # NoResponse /\ conn[r] # NoConn => connStatus[conn[r]] = "closed"
    /\ \A r \in Reqs :
          Done(r) /\ Has(log[r], "connect") => log[r][Len(log[r])] = "close"

\* C1 witness: a request left the with block by an exception that is neither a
\* store error nor an HTTPException, after a successful query, and is answered.
C1_Witness ==
    \E r \in Reqs :
        /\ Done(r) /\ outcome[r].kind = "ValidationError"
        /\ log[r] = <<"connect", "execute", "close">>
        /\ connStatus[conn[r]] = "closed"

C3_InvalidDateRejected ==
    \A r \in Reqs :
        Done(r) /\ IsGame(r) /\ ~StrictYMD(date[r]) =>
            response[r] = [status |-> 400, body |-> [detail |-> InvalidDateDetail]]

\* C4: a game request whose date fails validation never acquires a connection
\* and never calls the store; it is answered 400 at once.
C4_ValidationBeforeStore ==
    \A r \in Reqs :
        IsGame(r) /\ ~strptime(date[r]).ok =>
            /\ log[r] = <<>> /\ conn[r] = NoConn /\ rows[r] = <<>>
            /\ Done(r) /\ response[r].status = 400

\* C4 witness: a request with an impossible date is answered 400 while the
\* store is reachable.
C4_Witness ==
    \E r \in Reqs :
        /\ Done(r) /\ IsGame(r) /\ ~strptime(date[r]).ok
        /\ response[r].status = 400 /\ dbState = "up"

\* C5: a request that met a store error (connect or query) is answered 500
\* with detail "Database error: " + message, and if it had acquired a
\* connection, it rolled back and then closed it.
C5_StoreErrorHandled ==
    \A r \in Reqs :
        Done(r) /\ IsGame(r) /\ StoreFailed(r) =>
            /\ response[r].status = 500
            /\ "detail" \in DOMAIN response[r].body
            /\ response[r].body.detail[1] = "Database error: "
            /\ conn[r] # NoConn =>
                  /\ Len(log[r]) >= 2
                  /\ SubSeq(log[r], Len(log[r]) - 1, Len(log[r])) = <<"rollback", "close">>

\* C6: every game request that is not answered 200 is answered 400, 404 or 5xx
\* with a JSON body that has a detail field.
C6_FailuresCarryDetail ==
    \A r \in Reqs :
        Done(r) /\ IsGame(r) /\ response[r].status # 200 =>
            /\ response[r].status \in {400, 404} \cup 500..599
            /\ "detail" \in DOMAIN response[r].body

\* C7: a health check is answered 200 {status: healthy} and makes no call on
\* the store, whatever the state of the store and of the other requests.
C7_HealthAlwaysHealthy ==
    \A r \in Reqs :
        path[r] = "/health" =>
            /\ response[r] = [status |-> 200, body |-> [status |-> "healthy"]]
            /\ log[r] = <<>> /\ conn[r] = NoConn

\* C7 witness: a health check is answered while the store is down and another
\* request holds a connection it has lost.
C7_Witness ==
    \E r, q \in Reqs :
        /\ Done(r) /\ path[r] = "/health" /\ response[r].status = 200
        /\ dbState = "down"
        /\ InScope(q) /\ connStatus[conn[q]] = "lost"

\* C8: a 200 response is the first row returned: id, editor and categories are
\* the row's game_id, editor and categories, and print_date is its game_date
\* as YYYY-MM-DD.
C8_ResponseIsFirstRow ==
    \A r \in Reqs :
        Done(r) /\ IsGame(r) /\ response[r].status = 200 =>
            /\ rows[r] # <<>>
            /\ response[r].body =
                  [id |-> rows[r][1].game_id,
                   print_date |-> FormatYMD(rows[r][1].game_date),
                   editor |-> rows[r][1].editor,
                   categories |-> rows[r][1].categories]

\* C9 as stated: while the table is not written, two answered requests for the
\* same date string have identical bodies.
C9_Original ==
    \A r, q \in Reqs :
        Done(r) /\ Done(q) /\ IsGame(r) /\ IsGame(q) /\ date[r] = date[q] =>
            response[r].body = response[q].body

UniqueDate(t, d) == Cardinality({i \in 1..Len(t) : t[i].game_date = d}) <= 1

\* C9 amended: while the table is not written, two answered requests for the
\* same date string, neither of which met a store error, have the same status
\* and body, provided the table holds at most one row for that date.
C9_Idempotent ==
    \A r, q \in Reqs :
        /\ Done(r) /\ Done(q) /\ IsGame(r) /\ IsGame(q) /\ date[r] = date[q]
        /\ ~StoreFailed(r) /\ ~StoreFailed(q)
        /\ UniqueDate(solutions, parsed[r])
        => response[r] = response[q]

\* C9 witness: two requests for the same date are both answered 200, while
\* the store is failing for whoever comes next.
C9_Witness ==
    \E r, q \in Reqs :
        /\ r # q /\ Done(r) /\ Done(q) /\ IsGame(r) /\ IsGame(q) /\ date[r] = date[q]
        /\ response[r].status = 200 /\ response[q].status = 200
        /\ UniqueDate(solutions, parsed[r])
        /\ dbState = "failing"

\* Two requests never hold the same connection.
OwnConnections ==
    \A r, q \in Reqs : r # q /\ conn[r] # NoConn => conn[r] # conn[q]

\* A step that request r does not take leaves everything request r holds as it
\* is, its response included; the status of its connection changes only when
\* the server goes down.
IsolatedStep ==
    \A r \in Reqs :
        pc'[r] = pc[r] =>
            /\ path'[r] = path[r] /\ date'[r] = date[r] /\ parsed'[r] = parsed[r]
            /\ conn'[r] = conn[r] /\ rows'[r] = rows[r] /\ outcome'[r] = outcome[r]
            /\ response'[r] = response[r] /\ log'[r] = log[r]
            /\ conn[r] # NoConn /\ connStatus'[conn[r]] # connStatus[conn[r]]
                  => dbState' = "down"

\* Whatever the other requests did, a request in flight can take its next step.
NeverBlocked == \A r \in Reqs : pc[r] # "idle" => ENABLED Handle(r)

\* C10: requests are isolated: each holds a connection of its own, no step of
\* one request changes what another holds or is answered, and no request
\* keeps another from going on.
C10_Isolation == [](OwnConnections /\ NeverBlocked) /\ [][IsolatedStep]_vars

\* C10 witness: one request has been answered 500 after a store error while
\* another, holding its own connection, is about to return its game.
C10_Witness ==
    \E r, q \in Reqs :
        /\ Done(r) /\ StoreFailed(r) /\ response[r].status = 500
        /\ pc[q] = "finally" /\ outcome[q].kind = "return"
        /\ conn[q] # NoConn /\ conn[q] # conn[r] /\ connStatus[conn[q]] = "intrans"

=============================================================================
